---- MODULE Spec2Model ----
(***************************************************************************)
(* Model of the netdata NVML plugin nv.chart.py: Service.check() (schema   *)
(* builder) and Service._get_data() (collector with the nvidia-settings    *)
(* legacy fallback).                                                       *)
(*                                                                         *)
(* Every call into pynvml and the nvidia-settings command are the          *)
(* environment.  One collection pass draws its environment as              *)
(*   faults : the set of library calls that raise in this pass, and        *)
(*   out    : what the external command produces in this pass.             *)
(* A library call that does not raise returns a fixed value (NvmlValue).   *)
(*                                                                         *)
(* A snapshot key "device_temp_0" is the triple <<"device_temp", 0, 0>>,   *)
(* <<name, slot, index>>; slot is 0 except for the 20 ECC counters, whose  *)
(* slot 1..20 is the position of the key in lines 368-387.  Device names   *)
(* are interned as numbers.                                                *)
(***************************************************************************)
EXTENDS Integers, Sequences, FiniteSets, TLC

VARIABLES
    pc,           \* "new" | "checked" | "rechecked" | "idle" | "collected" | "failed" | "crashed"
    probe,        \* "none", "ok", or which library call of lines 145-163 raised
    cfgLegacy,    \* self.configuration['legacy']: "missing" | "empty" | "true" | "false"
    legacy,       \* self.legacy
    unitCount,    \* self.unitCount
    deviceCount,  \* self.deviceCount
    order,        \* self.order (the same list object as ORDER)
    definitions,  \* self.definitions (the same dict object as CHARTS)
    inp,          \* environment of the pass that produced the visible result
    invoked,      \* whether that pass ran the external command
    raisedAt,     \* "none", or where the visible call raised
    data,         \* snapshot that pass returned (empty when it raised)
    initPresent   \* the keys that held a value in the snapshot check() built the schema from

vars == <<pc, probe, cfgLegacy, legacy, unitCount, deviceCount, order, definitions,
          inp, invoked, raisedAt, data, initPresent>>

(* ------------------------------ bounds --------------------------------- *)
MaxDevices == 2
MaxUnits == 2

(* ------------------------- program constants --------------------------- *)
None == -1
MinOutputLen == 800
EccLocations == 5
EccCounterTypes == 2
EccErrorTypes == 2

ORDER == <<"utilization", "memoryutilization", "memory", "pcie",
           "temperature", "fan", "power", "ecc_errors">>

ChartTitle(chart) ==
    CASE chart = "memory" -> "Memory"
      [] chart = "utilization" -> "Utilization"
      [] chart = "memoryutilization" -> "Memory Utilization"
      [] chart = "ecc_errors" -> "ECC errors"
      [] chart = "temperature" -> "GPU temperature"
      [] chart = "fan" -> "Fan speed"
      [] chart = "pcie" -> "PCI Express Bandwidth Utilization"
      [] chart = "power" -> "Power Consumption"

\* A chart: options[1] is the base title followed by one name list per
\* " for " + name appended to it; lines is the list of metric lines.
CHARTS ==
    [chart \in {"memory", "utilization", "memoryutilization", "ecc_errors",
                "temperature", "fan", "pcie", "power"} |->
        [title |-> [base |-> ChartTitle(chart), suffix |-> <<>>], lines |-> <<>>]]

(* ------------------------------- keys ---------------------------------- *)
Key(name, slot, i) == <<name, slot, i>>

EccSlots == 1 .. (EccLocations * EccCounterTypes * EccErrorTypes)

\* Position of eccErrors[location][counter][error] in the key list of
\* lines 368-387, which is also the position of the query in the loop.
EccSlot(memoryLocation, eccCounter, memError) ==
    memoryLocation * (EccCounterTypes * EccErrorTypes) + eccCounter * EccErrorTypes + memError + 1

FirstEccKey(i) == Key("device_ecc_errors", EccSlot(0, 0, 0), i)

DeviceScalarNames ==
    {"device_name", "device_temp", "device_mem_total", "device_mem_used",
     "device_mem_free", "device_util_gpu", "device_util_mem",
     "device_util_pcie_tx", "device_util_pcie_rx", "device_fanspeed", "device_power"}

UnitNames ==
    {"unit_fan_speed", "unit_fan_state", "unit_psu_current", "unit_psu_power",
     "unit_psu_state", "unit_psu_voltage", "unit_temp_intake", "unit_temp_exhaust",
     "unit_temp_board"}

(* ---------------------- the library's answers -------------------------- *)
\* What a pynvml call returns when it does not raise.
NvmlValue(name, slot, i) ==
    CASE name = "device_name" -> 900 + i
      [] name = "device_temp" -> 60 + i
      [] name = "device_mem_total" -> 8000
      [] name = "device_mem_used" -> 1000 + i
      [] name = "device_mem_free" -> 7000 - i
      [] name = "device_util_gpu" -> 50 + i
      [] name = "device_util_mem" -> 40 + i
      [] name = "device_util_pcie_tx" -> 300 + i
      [] name = "device_util_pcie_rx" -> 200 + i
      [] name = "device_fanspeed" -> 30 + i
      [] name = "device_power" -> 5000 + i
      [] name = "device_ecc_errors" -> 100 * (i + 1) + slot
      [] name = "unit_fan_speed" -> 2000 + i
      [] name = "unit_fan_state" -> 0
      [] name = "unit_psu_current" -> 10 + i
      [] name = "unit_psu_power" -> 400 + i
      [] name = "unit_psu_state" -> 0
      [] name = "unit_psu_voltage" -> 12
      [] name = "unit_temp_intake" -> 20 + i
      [] name = "unit_temp_exhaust" -> 35 + i
      [] name = "unit_temp_board" -> 28 + i

\* The library calls of one device and of one unit, each of which may raise.
DeviceCalls(i) ==
    {<<c, 0, i>> : c \in {"handle", "name", "brand", "mem", "temp", "fan", "power", "util"}}
    \cup {<<"pcie", d, i>> : d \in {0, 1}}
    \cup {<<"ecc", q, i>> : q \in EccSlots}

UnitCalls(u) ==
    {<<c, 0, u>> : c \in {"unit_handle", "unit_fan", "unit_psu"}}
    \cup {<<"unit_temp", p, u>> : p \in 0 .. 2}

Fails(faults, call, sub, i) == <<call, sub, i>> \in faults

NoData == [k \in {} |-> None]

(* ------------------- _get_data: the primary adapter -------------------- *)
\* Lines 259-261: handle, name and brand are fetched outside any try.
IdentityRaises(faults, i) ==
    Fails(faults, "handle", 0, i) \/ Fails(faults, "name", 0, i) \/ Fails(faults, "brand", 0, i)

\* Lines 266-270: mem is the struct, or None when the call raised.
MemIsNone(faults, i) == Fails(faults, "mem", 0, i)

\* Lines 339-346 read mem.total, mem.used and mem.free outside any try:
\* with mem = None they raise AttributeError out of _get_data.
MemPackRaises(faults, i) == MemIsNone(faults, i)
\* A variant of the ECC block that catches only a failure of its first query.
EccErrorsIsNoneFirstOnly(faults, i) == Fails(faults, "ecc", EccSlot(0, 0, 0), i)

\* Lines 273-288: eccErrors is None as soon as one of the 20 queries raises.
EccErrorsIsNone(faults, i) == \E q \in EccSlots : Fails(faults, "ecc", q, i)

\* Lines 274-285: _memError and _eccCounter are created once, before the
\* loops, and the same two dict objects are stored under every counter type
\* and every location.  After the loops every eccErrors[l][c][e] reads the
\* value the last query with error type e stored: query (e, 1, 4).
EccErrorsAt(i, memoryLocation, eccCounter, memError) ==
    NvmlValue("device_ecc_errors",
              EccSlot(EccLocations - 1, EccCounterTypes - 1, memError), i)

Temp(faults, i) ==
    IF Fails(faults, "temp", 0, i) THEN None ELSE NvmlValue("device_temp", 0, i)

Fanspeed(faults, i) ==
    IF Fails(faults, "fan", 0, i) THEN None ELSE NvmlValue("device_fanspeed", 0, i)

Power(faults, i) ==
    IF Fails(faults, "power", 0, i) THEN None ELSE NvmlValue("device_power", 0, i)

GpuUtil(faults, i) ==
    IF Fails(faults, "util", 0, i) THEN None ELSE NvmlValue("device_util_gpu", 0, i)

MemUtil(faults, i) ==
    IF Fails(faults, "util", 0, i) THEN None ELSE NvmlValue("device_util_mem", 0, i)

\* Lines 322-328: both directions are None when either call raises.
PcieIsNone(faults, i) == Fails(faults, "pcie", 0, i) \/ Fails(faults, "pcie", 1, i)

PcieTx(faults, i) ==
    IF PcieIsNone(faults, i) THEN None ELSE NvmlValue("device_util_pcie_tx", 0, i)

PcieRx(faults, i) ==
    IF PcieIsNone(faults, i) THEN None ELSE NvmlValue("device_util_pcie_rx", 0, i)

\* eccErrors[location][counter][error] for the key in position slot.
EccPacked(i, slot) ==
    EccErrorsAt(i, (slot - 1) \div (EccCounterTypes * EccErrorTypes),
                   ((slot - 1) \div EccErrorTypes) % EccCounterTypes,
                   (slot - 1) % EccErrorTypes)

\* Lines 330-364: the entries of one device other than the ECC counters.
DevicePacked(faults, i, name) ==
    CASE name = "device_name" -> NvmlValue("device_name", 0, i)
      [] name = "device_temp" -> Temp(faults, i)
      [] name = "device_mem_total" -> NvmlValue("device_mem_total", 0, i)
      [] name = "device_mem_used" -> NvmlValue("device_mem_used", 0, i)
      [] name = "device_mem_free" -> NvmlValue("device_mem_free", 0, i)
      [] name = "device_util_gpu" -> GpuUtil(faults, i)
      [] name = "device_util_mem" -> MemUtil(faults, i)
      [] name = "device_util_pcie_tx" -> PcieTx(faults, i)
      [] name = "device_util_pcie_rx" -> PcieRx(faults, i)
      [] name = "device_fanspeed" -> Fanspeed(faults, i)
      [] name = "device_power" -> Power(faults, i)

DeviceScalars(faults, i) ==
    [k \in {Key(n, 0, i) : n \in DeviceScalarNames} |-> DevicePacked(faults, i, k[1])]

\* Lines 367-389: the 20 counters when eccErrors is not None, else the
\* first key alone, set to None.
EccEntries(faults, i) ==
    IF EccErrorsIsNone(faults, i)
    THEN [k \in {FirstEccKey(i)} |-> None]
    ELSE [k \in {Key("device_ecc_errors", s, i) : s \in EccSlots} |-> EccPacked(i, k[2])]

\* Lines 330-389: the entries one device adds to data.
DeviceData(faults, i) == DeviceScalars(faults, i) @@ EccEntries(faults, i)

\* Lines 397-427: the three try blocks of one unit.
UnitFanIsNone(faults, u) == Fails(faults, "unit_fan", 0, u)

UnitPsuIsNone(faults, u) == Fails(faults, "unit_psu", 0, u)

UnitTempIsNone(faults, u) == \E p \in 0 .. 2 : Fails(faults, "unit_temp", p, u)

\* Lines 429-454: the entries one unit adds to data.
UnitPacked(faults, u, name) ==
    CASE name \in {"unit_fan_speed", "unit_fan_state"} ->
            IF UnitFanIsNone(faults, u) THEN None ELSE NvmlValue(name, 0, u)
      [] name \in {"unit_psu_current", "unit_psu_power", "unit_psu_state", "unit_psu_voltage"} ->
            IF UnitPsuIsNone(faults, u) THEN None ELSE NvmlValue(name, 0, u)
      [] name \in {"unit_temp_intake", "unit_temp_exhaust", "unit_temp_board"} ->
            IF UnitTempIsNone(faults, u) THEN None ELSE NvmlValue(name, 0, u)
\* A variant of the unit packing that leaves out the fan state of a unit
\* whose fan query raised.
UnitDataWithoutFanState(faults, u) ==
    [k \in {Key(n, 0, u) : n \in UnitNames
                                 \ (IF UnitFanIsNone(faults, u) THEN {"unit_fan_state"} ELSE {})}
        |-> UnitPacked(faults, u, k[1])]

UnitData(faults, u) ==
    [k \in {Key(n, 0, u) : n \in UnitNames} |-> UnitPacked(faults, u, k[1])]

\* Whether lines 256-454 raise out of _get_data.
PrimaryRaises(faults, dc, uc) ==
    \/ \E i \in 0 .. dc - 1 : IdentityRaises(faults, i) \/ MemPackRaises(faults, i)
    \/ \E u \in 0 .. uc - 1 : Fails(faults, "unit_handle", 0, u)

\* Lines 257-389, for i in range(self.deviceCount).
RECURSIVE DevicesData(_, _, _)
DevicesData(faults, i, dc) ==
    IF i >= dc THEN NoData ELSE DeviceData(faults, i) @@ DevicesData(faults, i + 1, dc)

\* Lines 393-454, for i in range(self.unitCount).
RECURSIVE UnitsData(_, _, _)
UnitsData(faults, u, uc) ==
    IF u >= uc THEN NoData ELSE UnitData(faults, u) @@ UnitsData(faults, u + 1, uc)

\* data as it stands at line 455.
PrimaryData(faults, dc, uc) == DevicesData(faults, 0, dc) @@ UnitsData(faults, 0, uc)

(* ----------------- _get_data: the nvidia-settings pass ----------------- *)
\* What the external command produces in one pass:
\*   cmd     "ok", or "oserror" when Popen(...).communicate() raises;
\*   rawLen  the number of characters captured on stdout;
\*   extra   the number of characters repr(str(.)) adds to them: the two
\*           quotes, the b'..' of a bytes object, one per escape;
\*   temp, memUsed, util  the lists findall returns for the three patterns,
\*           one tuple of groups per match; a (\d*) group is a digit
\*           sequence, empty when no digit stood there.

\* Line 471: output = repr(str(output)); line 472 takes len of that.
ReprStrLen(out) == out.rawLen + out.extra

\* Lines 458-479: the try block raises when the command cannot be run or
\* when len(output) < 800.
LegacySourceFails(out) == out.cmd = "oserror" \/ ReprStrLen(out) < MinOutputLen

\* int(text) of a digit sequence; int('') raises ValueError.
RECURSIVE IntOf(_)
IntOf(digits) ==
    IF digits = <<>> THEN 0
    ELSE 10 * IntOf(SubSeq(digits, 1, Len(digits) - 1)) + digits[Len(digits)]

IntRaises(digits) == digits = <<>>
\* A variant of the legacy extraction without the `is None` test.
LegacyFieldOverwriting(d, key, matches, i, group) ==
    IF d.raised THEN d
    ELSE IF Len(matches) < i + 1 THEN [d EXCEPT !.raised = TRUE]
    ELSE IF IntRaises(matches[i + 1][group + 1]) THEN d
    ELSE [d EXCEPT !.data[key] = IntOf(matches[i + 1][group + 1])]

\* One "if data[key] is None:" block of lines 482-509.  findall(...)[i] is
\* evaluated outside the try, so a missing i-th match raises IndexError out
\* of _get_data; int(...) is inside the try, so ValueError leaves the key.
\* group is the Python group index, matches[i + 1][group + 1] here.
LegacyField(d, key, matches, i, group) ==
    IF d.raised \/ d.data[key] # None THEN d
    ELSE IF Len(matches) < i + 1 THEN [d EXCEPT !.raised = TRUE]
    ELSE IF IntRaises(matches[i + 1][group + 1]) THEN d
    ELSE [d EXCEPT !.data[key] = IntOf(matches[i + 1][group + 1])]

\* Lines 481-509 for one device.
LegacyDevice(d, out, i) ==
    LET d1 == LegacyField(d, Key("device_temp", 0, i), out.temp, i, 1)
        d2 == LegacyField(d1, Key("device_mem_used", 0, i), out.memUsed, i, 1)
        d3 == LegacyField(d2, Key("device_util_gpu", 0, i), out.util, i, 1)
    IN  LegacyField(d3, Key("device_util_mem", 0, i), out.util, i, 2)

\* Line 480: for i in range(self.deviceCount).
RECURSIVE LegacyLoop(_, _, _, _)
LegacyLoop(d, out, i, dc) ==
    IF i >= dc THEN d ELSE LegacyLoop(LegacyDevice(d, out, i), out, i + 1, dc)

NoOutput == [cmd |-> "none", rawLen |-> 0, extra |-> 0,
             temp |-> <<>>, memUsed |-> <<>>, util |-> <<>>]

\* Lines 480-511: the result of the pass once the extraction loop has run.
AfterLegacyLoop(r, leg) ==
    IF r.raised
    THEN [raisedAt |-> "legacy", data |-> NoData, legacy |-> leg, invoked |-> TRUE]
    ELSE [raisedAt |-> "none", data |-> r.data, legacy |-> leg, invoked |-> TRUE]
\* A variant of the legacy section whose except branch keeps self.legacy.
LegacySectionKeepingMode(p, out, leg, dc) ==
    IF ~leg THEN [raisedAt |-> "none", data |-> p, legacy |-> leg, invoked |-> FALSE]
    ELSE IF LegacySourceFails(out)
    THEN [raisedAt |-> "none", data |-> p, legacy |-> leg, invoked |-> TRUE]
    ELSE AfterLegacyLoop(LegacyLoop([raised |-> FALSE, data |-> p], out, 0, dc), leg)

\* Lines 456-511 on the primary snapshot p with self.legacy = leg.
LegacySection(p, out, leg, dc) ==
    IF ~leg
    THEN [raisedAt |-> "none", data |-> p, legacy |-> leg, invoked |-> FALSE]
    ELSE IF LegacySourceFails(out)
    THEN [raisedAt |-> "none", data |-> p, legacy |-> FALSE, invoked |-> TRUE]
    ELSE AfterLegacyLoop(LegacyLoop([raised |-> FALSE, data |-> p], out, 0, dc), leg)

\* Lines 253-511: one call of _get_data with self.legacy = leg.
GetData(faults, out, leg, dc, uc) ==
    IF PrimaryRaises(faults, dc, uc)
    THEN [raisedAt |-> "primary", data |-> NoData, legacy |-> leg, invoked |-> FALSE]
    ELSE LegacySection(PrimaryData(faults, dc, uc), out, leg, dc)

(* ------------------------ check: the schema ---------------------------- *)
Line(key, label, multiplier, divisor) ==
    [id |-> key, name |-> label, multiplier |-> multiplier, divisor |-> divisor]

\* The labels of lines 197-216, without the " [i]" that follows them.
EccLabels ==
    <<"L1 Cache Volatile Corrected", "L1 Cache Volatile Uncorrected",
      "L1 Cache Aggregate Corrected", "L1 Cache Aggregate Uncorrected",
      "L2 Cache Volatile Corrected", "L2 Cache Volatile Uncorrected",
      "L2 Cache Aggregate Corrected", "L2 Cache Aggregate Uncorrected",
      "Device Memory Volatile Corrected", "Device Memory Volatile Uncorrected",
      "Device Memory Aggregate Corrected", "Device Memory Aggregate Uncorrected",
      "Register File Volatile Corrected", "Register File Volatile Uncorrected",
      "Register File Aggregate Corrected", "Register File Aggregate Uncorrected",
      "Texture Memory Volatile Corrected", "Texture Memory Volatile Uncorrected",
      "Texture Memory Aggregate Corrected", "Texture Memory Aggregate Uncorrected">>

\* Lines 196-216.
EccLines(d, i) ==
    IF d[FirstEccKey(i)] # None
    THEN [s \in EccSlots |-> Line(Key("device_ecc_errors", s, i), EccLabels[s], 1, 1)]
    ELSE <<>>

\* Lines 186-188: both utilization lines hang on device_util_gpu.
UtilizationLines(d, i) ==
    IF d[Key("device_util_gpu", 0, i)] # None
    THEN <<Line(Key("device_util_gpu", 0, i), "GPU:", 1, 1)>>
    ELSE <<>>

MemoryUtilizationLines(d, i) ==
    IF d[Key("device_util_gpu", 0, i)] # None
    THEN <<Line(Key("device_util_mem", 0, i), "GPU:", 1, 1)>>
    ELSE <<>>

\* A variant of the PCIe lines that binds the TX key only.
PcieLinesTxOnly(d, i) ==
    IF d[Key("device_util_pcie_tx", 0, i)] # None
    THEN <<Line(Key("device_util_pcie_tx", 0, i), "tx", 1, 1)>>
    ELSE <<>>

\* Lines 191-193.
PcieLines(d, i) ==
    IF d[Key("device_util_pcie_tx", 0, i)] # None
    THEN <<Line(Key("device_util_pcie_tx", 0, i), "tx", 1, 1),
           Line(Key("device_util_pcie_rx", 0, i), "rx", 1, -1)>>
    ELSE <<>>

\* Lines 177-228: what device i appends to one chart.
DeviceLines(d, i, chart) ==
    CASE chart = "memory" ->
            IF d[Key("device_mem_used", 0, i)] # None
            THEN <<Line(Key("device_mem_used", 0, i), "GPU:", 1, 1024 * 1024)>>
            ELSE <<>>
      [] chart = "utilization" -> UtilizationLines(d, i)
      [] chart = "memoryutilization" -> MemoryUtilizationLines(d, i)
      [] chart = "pcie" -> PcieLines(d, i)
      [] chart = "ecc_errors" -> EccLines(d, i)
      [] chart = "temperature" ->
            IF d[Key("device_temp", 0, i)] # None
            THEN <<Line(Key("device_temp", 0, i), "GPU:", 1, 1)>>
            ELSE <<>>
      [] chart = "fan" ->
            IF d[Key("device_fanspeed", 0, i)] # None
            THEN <<Line(Key("device_fanspeed", 0, i), "GPU:", 1, 1)>>
            ELSE <<>>
      [] chart = "power" ->
            IF d[Key("device_power", 0, i)] # None
            THEN <<Line(Key("device_power", 0, i), "GPU:", 1, 1000)>>
            ELSE <<>>
      [] OTHER -> <<>>

\* Lines 236-239: what unit u appends to one chart.
UnitLines(d, u, chart) ==
    IF chart = "temperature" /\ d[Key("unit_temp_intake", 0, u)] # None
    THEN <<Line(Key("unit_temp_intake", 0, u), "intake (unit)", 1, 1),
           Line(Key("unit_temp_exhaust", 0, u), "exhaust (unit)", 1, 1),
           Line(Key("unit_temp_board", 0, u), "board (unit)", 1, 1)>>
    ELSE <<>>

\* for i in range(n): the appends of lines 177-228, then of lines 234-239.
RECURSIVE DeviceLoop(_, _, _, _)
DeviceLoop(d, chart, i, dc) ==
    IF i >= dc THEN <<>> ELSE DeviceLines(d, i, chart) \o DeviceLoop(d, chart, i + 1, dc)

RECURSIVE UnitLoop(_, _, _, _)
UnitLoop(d, chart, u, uc) ==
    IF u >= uc THEN <<>> ELSE UnitLines(d, u, chart) \o UnitLoop(d, chart, u + 1, uc)

\* Lines 167-172: the device names in index order, each with its index.
NameList(d, dc) == [j \in 1 .. dc |-> <<d[Key("device_name", 0, j - 1)], j - 1>>]

\* Lines 240-243: self.definitions['unit_fan'] = {...} is an assignment, made
\* anew for each unit whose fan speed is present; the last one stays.
UnitFanChart(d, u) ==
    [title |-> [base |-> "Unit fan", suffix |-> <<>>],
     lines |-> <<Line(Key("unit_fan_speed", 0, u), "Unit", 1, 1)>>]

\* Lines 244-250, an assignment likewise.
UnitPsuChart(d, u) ==
    [title |-> [base |-> "Unit PSU", suffix |-> <<>>],
     lines |-> <<Line(Key("unit_psu_current", 0, u), "current (A) (unit)", 1, 1),
                 Line(Key("unit_psu_power", 0, u), "power (W) (unit)", 1, 1),
                 Line(Key("unit_psu_voltage", 0, u), "voltage (V) (unit)", 1, 1)>>]

UnitsWith(d, name, uc) == {u \in 0 .. uc - 1 : d[Key(name, 0, u)] # None}

Last(S) == CHOOSE u \in S : \A v \in S : v <= u

\* Lines 174-175 and 177-239: the title suffix and the appended lines.
ExtendedChart(def, chart, d, dc, uc) ==
    [title |-> [def.title EXCEPT !.suffix = Append(@, NameList(d, dc))],
     lines |-> def.lines \o DeviceLoop(d, chart, 0, dc)
                         \o (IF uc # 0 THEN UnitLoop(d, chart, 0, uc) ELSE <<>>)]

\* Lines 166-250 on the snapshot d: the new self.definitions.
BuildDefinitions(defs, d, dc, uc) ==
    LET fans == UnitsWith(d, "unit_fan_speed", uc)
        psus == UnitsWith(d, "unit_psu_current", uc)
        names == DOMAIN defs
                 \cup (IF fans # {} THEN {"unit_fan"} ELSE {})
                 \cup (IF psus # {} THEN {"unit_psu"} ELSE {})
    IN  [chart \in names |->
            IF chart = "unit_fan" /\ fans # {} THEN UnitFanChart(d, Last(fans))
            ELSE IF chart = "unit_psu" /\ psus # {} THEN UnitPsuChart(d, Last(psus))
            ELSE ExtendedChart(defs[chart], chart, d, dc, uc)]

\* Lines 231-233: self.order is ORDER itself and grows by two names.
BuildOrder(ord, uc) ==
    IF uc # 0 THEN ord \o <<"unit_fan", "unit_psu">> ELSE ord

(* --------------------------- environment ------------------------------- *)
\* The calls whose value the legacy section can supply instead.
LegacyCalls(dc) == {<<c, 0, i>> : c \in {"temp", "util"}, i \in 0 .. dc - 1}

AllCalls(dc, uc) ==
    UNION {DeviceCalls(i) : i \in 0 .. dc - 1} \cup UNION {UnitCalls(u) : u \in 0 .. uc - 1}

\* The fault sets of one pass: no call raises; one call raises; all backed
\* up calls raise.
LegacyFaultSets(dc) ==
    {{}} \cup {{f} : f \in LegacyCalls(dc)} \cup {LegacyCalls(dc)}

FaultSets(dc, uc) ==
    {{f} : f \in AllCalls(dc, uc)} \cup LegacyFaultSets(dc)

\* A report in which every pattern matches every device with digits.
Nominal(dc) ==
    [cmd |-> "ok", rawLen |-> MinOutputLen + 700, extra |-> 60,
     temp    |-> [j \in 1 .. dc |-> << <<j - 1>>, <<7, j - 1>> >>],
     memUsed |-> [j \in 1 .. dc |-> << <<j - 1>>, <<9, j - 1>> >>],
     util    |-> [j \in 1 .. dc |-> << <<j - 1>>, <<8, j - 1>>, <<3, j - 1>> >>]]

\* The command could not be run.
CommandFailed == [NoOutput EXCEPT !.cmd = "oserror"]

\* The command printed nothing; its output is three characters, or two
\* characters, shorter than the threshold and repr adds its two quotes.
ShortOutputs(dc) ==
    { [NoOutput EXCEPT !.cmd = "ok", !.extra = 2],
      [Nominal(dc) EXCEPT !.rawLen = MinOutputLen - 3, !.extra = 2],
      [Nominal(dc) EXCEPT !.rawLen = MinOutputLen - 2, !.extra = 2] }

\* Nominal reports with one defect: a pattern stops matching from device k
\* on, or one (\d*) group of one match is empty.  (device_mem_used is never
\* None at line 489, so one defect of its pattern is drawn.)
DefectiveOutputs(dc) ==
    {[Nominal(dc) EXCEPT ![f] = SubSeq(@, 1, k)] :
        f \in {"temp", "util"}, k \in 0 .. dc - 1}
    \cup {[Nominal(dc) EXCEPT ![f][j][2] = <<>>] :
        f \in {"temp", "util"}, j \in 1 .. dc}
    \cup {[Nominal(dc) EXCEPT !.util[j][3] = <<>>] : j \in 1 .. dc}
    \cup {[Nominal(dc) EXCEPT !.memUsed = <<>>]}

\* The environments of one pass.  The command's output is drawn only when
\* the pass runs the command: every fault set with a nominal report, and
\* the fault sets of the backed up calls with every output.
Environments(leg, dc, uc) ==
    IF ~leg
    THEN {[faults |-> F, out |-> NoOutput] : F \in FaultSets(dc, uc)}
    ELSE {[faults |-> F, out |-> Nominal(dc)] : F \in FaultSets(dc, uc)}
         \cup {[faults |-> F, out |-> o] :
                 F \in LegacyFaultSets(dc),
                 o \in {CommandFailed} \cup ShortOutputs(dc) \cup DefectiveOutputs(dc)}

NoEnvironment == [faults |-> {}, out |-> NoOutput]

\* Line 126-131: self.legacy from the configuration.
LegacyFromConfiguration(c) == c = "true"

(* ------------------------------ actions -------------------------------- *)
Init ==
    /\ pc = "new"
    /\ probe = "none"
    /\ cfgLegacy \in {"missing", "empty", "true", "false"}
    /\ legacy = FALSE
    /\ unitCount = 0
    /\ deviceCount = 0
    /\ order = ORDER
    /\ definitions = CHARTS
    /\ inp = NoEnvironment
    /\ invoked = FALSE
    /\ raisedAt = "none"
    /\ data = NoData
    /\ initPresent = {}

\* Lines 145-152 and 160-163: the except blocks call nvmlShutdown(), itself
\* a library call outside any try, and then return False.
CheckFails(failed, uc, shutdownRaises) ==
    /\ pc' = IF shutdownRaises THEN "crashed" ELSE "failed"
    /\ probe' = failed
    /\ raisedAt' = IF shutdownRaises THEN "shutdown" ELSE "none"
    /\ legacy' = LegacyFromConfiguration(cfgLegacy)
    /\ unitCount' = uc
    /\ UNCHANGED <<cfgLegacy, deviceCount, order, definitions, inp, invoked,
                   data, initPresent>>

\* Lines 166-251 with the library's counts uc and dc in the environment env.
CheckCollects(uc, dc, env, returned) ==
    \E r \in {GetData(env.faults, env.out, LegacyFromConfiguration(cfgLegacy), dc, uc)} :
    /\ probe' = "ok"
    /\ unitCount' = uc
    /\ deviceCount' = dc
    /\ legacy' = r.legacy
    /\ inp' = [env EXCEPT !.out = IF r.invoked THEN @ ELSE NoOutput]
    /\ invoked' = r.invoked
    /\ raisedAt' = r.raisedAt
    /\ data' = r.data
    /\ IF r.raisedAt # "none"
       THEN /\ pc' = "crashed"
            /\ UNCHANGED <<order, definitions, initPresent>>
       ELSE /\ pc' = returned
            /\ order' = BuildOrder(order, uc)
            /\ definitions' = BuildDefinitions(definitions, r.data, dc, uc)
            /\ initPresent' = {k \in DOMAIN r.data : r.data[k] # None}
    /\ UNCHANGED cfgLegacy

\* Service.check(), called once by the framework after __init__.
\*   handshake    "ok", or which call of lines 147-148 raised;
\*   enumeration  "ok", or which call of lines 156-157 raised.
Check ==
    /\ pc = "new"
    /\ \E handshake \in {"ok", "init", "version"},
          enumeration \in {"ok", "unit", "device"},
          shutdownRaises \in BOOLEAN,
          uc \in 0 .. MaxUnits, dc \in 0 .. MaxDevices :
          IF handshake # "ok"
          THEN /\ uc = 0 /\ dc = 0 /\ enumeration = "ok"
               /\ CheckFails(handshake, unitCount, shutdownRaises)
          ELSE IF enumeration = "unit"
          THEN uc = 0 /\ dc = 0 /\ CheckFails(enumeration, unitCount, shutdownRaises)
          ELSE IF enumeration = "device"
          THEN dc = 0 /\ CheckFails(enumeration, uc, shutdownRaises)
          ELSE /\ ~shutdownRaises
               /\ \E env \in Environments(LegacyFromConfiguration(cfgLegacy), dc, uc) :
                     CheckCollects(uc, dc, env, "checked")

\* Service.check() run a second time in the same process, the library and
\* the command answering as they did the first time.
Recheck ==
    /\ pc = "checked"
    /\ CheckCollects(unitCount, deviceCount, inp, "rechecked")

\* The framework takes the value the call returned (or the exception it
\* raised); a snapshot is not kept past its cycle.
Deliver ==
    /\ pc \in {"checked", "collected"}
    /\ pc' = "idle"
    /\ inp' = NoEnvironment
    /\ invoked' = FALSE
    /\ raisedAt' = "none"
    /\ data' = NoData
    /\ UNCHANGED <<probe, cfgLegacy, legacy, unitCount, deviceCount, order, definitions,
                   initPresent>>

\* Service._get_data(), called by the framework once per cycle.
Collect ==
    /\ pc = "idle"
    /\ \E env \in Environments(legacy, deviceCount, unitCount) :
          \E r \in {GetData(env.faults, env.out, legacy, deviceCount, unitCount)} :
          /\ pc' = "collected"
          /\ legacy' = r.legacy
          /\ inp' = [env EXCEPT !.out = IF r.invoked THEN @ ELSE NoOutput]
          /\ invoked' = r.invoked
          /\ raisedAt' = r.raisedAt
          /\ data' = r.data
    /\ UNCHANGED <<probe, cfgLegacy, unitCount, deviceCount, order, definitions, initPresent>>

Next == Check \/ Deliver \/ Collect

Spec == Init /\ [][Next]_vars

NextRecheck == Check \/ Deliver \/ Collect \/ Recheck

SpecRecheck == Init /\ [][NextRecheck]_vars

(* ------------------------------ claims --------------------------------- *)
\* A call of _get_data has just ended, by a return or by an exception.
PassDone ==
    \/ pc \in {"checked", "rechecked", "collected"}
    \/ pc = "crashed" /\ raisedAt \in {"primary", "legacy"}

\* A call of _get_data has just returned the snapshot data.
PassReturned == pc \in {"checked", "rechecked", "collected"} /\ raisedAt = "none"

Devices == 0 .. deviceCount - 1

Units == 0 .. unitCount - 1

\* The per-device metric queries: memory info, ECC, temperature, fan,
\* power, utilization, PCIe.
MetricCalls(i) ==
    {<<c, 0, i>> : c \in {"mem", "temp", "fan", "power", "util"}}
    \cup {<<"pcie", dir, i>> : dir \in {0, 1}}
    \cup {<<"ecc", q, i>> : q \in EccSlots}

\* data holds under name what the query returned, or None when it raised.
Carries(name, slot, i, raised) ==
    data[Key(name, slot, i)] = IF raised THEN None ELSE NvmlValue(name, slot, i)

EccRaised(i) == \E q \in EccSlots : <<"ecc", q, i>> \in inp.faults

\* C1: in a pass in which only per-device metric queries raise, the pass
\* returns a snapshot, and (no legacy value being filled in) every metric of
\* every device is None when its query raised and is the value its own
\* query returned when it did not.
C1_FaultIsolated ==
    (PassDone /\ inp.faults \subseteq UNION {MetricCalls(i) : i \in Devices}) =>
        /\ raisedAt # "primary"
        /\ (raisedAt = "none" /\ ~invoked) =>
              \A i \in Devices :
                 /\ \A n \in {"device_mem_total", "device_mem_used", "device_mem_free"} :
                       Carries(n, 0, i, <<"mem", 0, i>> \in inp.faults)
                 /\ Carries("device_temp", 0, i, <<"temp", 0, i>> \in inp.faults)
                 /\ Carries("device_fanspeed", 0, i, <<"fan", 0, i>> \in inp.faults)
                 /\ Carries("device_power", 0, i, <<"power", 0, i>> \in inp.faults)
                 /\ \A n \in {"device_util_gpu", "device_util_mem"} :
                       Carries(n, 0, i, <<"util", 0, i>> \in inp.faults)
                 /\ \A n \in {"device_util_pcie_tx", "device_util_pcie_rx"} :
                       Carries(n, 0, i, \E dir \in {0, 1} : <<"pcie", dir, i>> \in inp.faults)
                 /\ IF EccRaised(i)
                    THEN data[FirstEccKey(i)] = None
                    ELSE \A q \in EccSlots : Carries("device_ecc_errors", q, i, FALSE)

\* Every declared metric slot of the installed devices and units.
DeclaredKeys ==
    {Key(n, 0, i) : n \in DeviceScalarNames, i \in Devices}
    \cup {Key("device_ecc_errors", q, i) : q \in EccSlots, i \in Devices}
    \cup {Key(n, 0, u) : n \in UnitNames, u \in Units}

Scalar(v) == v \in Nat

\* C2 as stated: every returned snapshot has exactly the declared keys, the
\* 20 ECC keys of every device included, each a scalar or None.
C2_AllKeysPresent ==
    PassReturned =>
        /\ DOMAIN data = DeclaredKeys
        /\ \A k \in DOMAIN data : data[k] = None \/ Scalar(data[k])

\* The ECC keys other than the first, of the devices whose ECC block raised.
DroppedEccKeys ==
    {Key("device_ecc_errors", q, i) : q \in EccSlots \ {EccSlot(0, 0, 0)},
                                      i \in {j \in Devices : EccRaised(j)}}

\* C2 amended: every returned snapshot has exactly the declared keys, each a
\* scalar or None, except that for a device whose ECC block raised only the
\* first ECC key is present (None) and the other 19 are missing.
C2_KeysPresentButDroppedEcc ==
    PassReturned =>
        /\ DOMAIN data = DeclaredKeys \ DroppedEccKeys
        /\ \A k \in DOMAIN data : data[k] = None \/ Scalar(data[k])
        /\ \A i \in Devices : EccRaised(i) => data[FirstEccKey(i)] = None

\* A returned snapshot of a device whose ECC block raised and of a unit
\* whose fan query raised.
C2_Witness ==
    /\ PassReturned
    /\ \E i \in Devices : EccRaised(i) /\ Key("device_ecc_errors", 2, i) \notin DOMAIN data

C2_WitnessUnit ==
    /\ PassReturned
    /\ \E u \in Units : data[Key("unit_fan_state", 0, u)] = None

\* The lines of every chart of the schema, as a set of keys.
SchemaKeys ==
    UNION {{definitions[c].lines[n].id : n \in 1 .. Len(definitions[c].lines)} :
              c \in DOMAIN definitions}

\* C3: when check() has built the schema, every key bound to a line of the
\* schema holds a value in the snapshot check() built it from.
C3_SchemaKeysObserved ==
    pc = "checked" => \A k \in SchemaKeys : k \in DOMAIN data /\ data[k] # None

\* The keys of the lines of one chart that belong to index i, in order.
RECURSIVE KeysOf(_, _)
KeysOf(lines, i) ==
    IF lines = <<>> THEN <<>>
    ELSE (IF lines[1].id[3] = i THEN <<lines[1].id>> ELSE <<>>) \o KeysOf(Tail(lines), i)

AllEccKeys(i) == [q \in EccSlots |-> Key("device_ecc_errors", q, i)]

\* C4: in the schema check() built, every device has either no ECC line or
\* the 20 ECC lines, in key order; it has none when its first ECC counter
\* is None in the snapshot; and the first counter is None whenever any of
\* the 20 queries raised.
C4_EccAllOrNothing ==
    pc = "checked" =>
        \A i \in Devices :
            LET ecc == KeysOf(definitions["ecc_errors"].lines, i) IN
            /\ ecc = <<>> \/ ecc = AllEccKeys(i)
            /\ data[FirstEccKey(i)] = None => ecc = <<>>
            /\ EccRaised(i) => data[FirstEccKey(i)] = None

\* A schema with no ECC line for a device whose last ECC query raised and
\* 20 ECC lines for another device.
C4_Witness ==
    /\ pc = "checked"
    /\ \E i, j \in Devices :
          /\ <<"ecc", 20, i>> \in inp.faults
          /\ KeysOf(definitions["ecc_errors"].lines, i) = <<>>
          /\ KeysOf(definitions["ecc_errors"].lines, j) = AllEccKeys(j)

\* C5: in every returned snapshot, each of the four keys the legacy section
\* can fill holds the value of the primary adapter whenever the primary
\* adapter produced one.
C5_LegacyKeepsPrimary ==
    PassReturned =>
        \A i \in Devices :
            /\ <<"temp", 0, i>> \notin inp.faults => Carries("device_temp", 0, i, FALSE)
            /\ <<"mem", 0, i>> \notin inp.faults => Carries("device_mem_used", 0, i, FALSE)
            /\ <<"util", 0, i>> \notin inp.faults =>
                  /\ Carries("device_util_gpu", 0, i, FALSE)
                  /\ Carries("device_util_mem", 0, i, FALSE)

\* A returned snapshot in which the legacy section filled the temperature
\* of one device and left the primary temperature of another device.
C5_Witness ==
    /\ PassReturned /\ invoked /\ ~LegacySourceFails(inp.out)
    /\ \E i, j \in Devices :
          /\ <<"temp", 0, i>> \in inp.faults
          /\ data[Key("device_temp", 0, i)] = IntOf(inp.out.temp[i + 1][2])
          /\ <<"temp", 0, j>> \notin inp.faults
          /\ data[Key("device_temp", 0, j)] = NvmlValue("device_temp", 0, j)
          /\ IntOf(inp.out.temp[j + 1][2]) # NvmlValue("device_temp", 0, j)

\* The snapshot of the pass before its legacy section.
PrimaryOnly == data = PrimaryData(inp.faults, deviceCount, unitCount)

\* The steps and states of a running service (check() returned True).
Running == pc \in {"checked", "idle", "collected"}

\* A pass ran the command and the command failed or its output was short,
\* measured as `short` measures it.
Downgrades(short) ==
    PassDone /\ invoked /\ (inp.out.cmd = "oserror" \/ short)

\* C6 as stated: when a pass ran the command and the command failed or its
\* captured output is shorter than 800 characters, the pass returns the
\* primary values only and legacy mode is False; once legacy mode is False
\* it stays False, the command is not run again and every later snapshot
\* holds primary values only.
C6_StickyDowngradeCaptured ==
    [][ /\ Downgrades(inp.out.rawLen < MinOutputLen)' =>
              (raisedAt = "none" /\ PrimaryOnly /\ ~legacy)'
        /\ (Running /\ ~legacy) =>
              (~legacy /\ ~invoked /\ (PassReturned => PrimaryOnly))' ]_vars

\* C6 amended: the same, the length being that of the text the check
\* measures, repr(str(output)): the captured output with the quotes and
\* escapes repr adds.
C6_StickyDowngrade ==
    [][ /\ Downgrades(ReprStrLen(inp.out) < MinOutputLen)' =>
              (raisedAt = "none" /\ PrimaryOnly /\ ~legacy)'
        /\ (Running /\ ~legacy) =>
              (~legacy /\ ~invoked /\ (PassReturned => PrimaryOnly))' ]_vars

\* A later cycle of a service configured with legacy mode, after the
\* downgrade: the command is not run and the temperature of device 0, whose
\* query raised, is None.
C6_Witness ==
    /\ pc = "collected" /\ cfgLegacy = "true" /\ ~legacy /\ ~invoked
    /\ <<"temp", 0, 0>> \in inp.faults
    /\ raisedAt = "none"
    /\ data[Key("device_temp", 0, 0)] = None

\* The i-th match of the pattern of a legacy key, and its (\d*) group.
Extractable(matches, i, group) ==
    Len(matches) >= i + 1 /\ matches[i + 1][group + 1] # <<>>

Recovered(name, matches, i, group) ==
    data[Key(name, 0, i)] =
        IF PrimaryData(inp.faults, deviceCount, unitCount)[Key(name, 0, i)] # None
        THEN PrimaryData(inp.faults, deviceCount, unitCount)[Key(name, 0, i)]
        ELSE IF Extractable(matches, i, group)
        THEN IntOf(matches[i + 1][group + 1])
        ELSE None

\* C7: a pass whose command output passed the length check returns a
\* snapshot and leaves legacy mode on; a key whose extraction fails (no
\* match for the device, or an empty capture) is None and every other key
\* the primary adapter left None holds the number extracted for it.
C7_FieldFailureIsLocal ==
    (PassDone /\ invoked /\ ~LegacySourceFails(inp.out)) =>
        /\ raisedAt = "none"
        /\ legacy
        /\ \A i \in Devices :
              /\ Recovered("device_temp", inp.out.temp, i, 1)
              /\ Recovered("device_mem_used", inp.out.memUsed, i, 1)
              /\ Recovered("device_util_gpu", inp.out.util, i, 1)
              /\ Recovered("device_util_mem", inp.out.util, i, 2)

\* C8: a second run of check() on the same snapshot leaves the chart order
\* and every chart, title and lines, as the first run left them.
C8_RecheckSameSchema ==
    [][(pc = "checked" /\ pc' = "rechecked") =>
          (order' = order /\ definitions' = definitions)]_vars

\* C9: when a call of the handshake or of the enumeration raised, check()
\* returns False, no snapshot was collected and no chart has a line.
C9_InitFailureReturnsFalse ==
    probe \in {"init", "version", "unit", "device"} =>
        /\ pc = "failed"
        /\ data = NoData
        /\ SchemaKeys = {}

\* The units whose key name holds a value in the snapshot, in index order.
RECURSIVE UnitKeysWith(_, _, _)
UnitKeysWith(name, shown, u) ==
    IF u >= unitCount THEN <<>>
    ELSE (IF data[Key(name, 0, u)] # None
          THEN [n \in 1 .. Len(shown) |-> Key(shown[n], 0, u)]
          ELSE <<>>) \o UnitKeysWith(name, shown, u + 1)

ChartKeys(chart) ==
    IF chart \in DOMAIN definitions
    THEN [n \in 1 .. Len(definitions[chart].lines) |-> definitions[chart].lines[n].id]
    ELSE <<>>

\* C10: in the schema check() built, unit_fan holds one line for each unit
\* whose fan speed is present and no other line, and unit_psu holds the
\* current, power and voltage lines of each unit whose PSU current is
\* present and no other line.
C10_UnitChartsPerUnit ==
    pc = "checked" =>
        /\ ChartKeys("unit_fan") = UnitKeysWith("unit_fan_speed", <<"unit_fan_speed">>, 0)
        /\ ChartKeys("unit_psu") =
              UnitKeysWith("unit_psu_current",
                           <<"unit_psu_current", "unit_psu_power", "unit_psu_voltage">>, 0)

\* The schema of a running service is the one check() left.
SchemaFrozen == order' = order /\ definitions' = definitions

\* The part of C11 that concerns the collection passes alone: no step of a
\* running service changes the chart order or any chart.
C11_PassesLeaveSchema ==
    [][Running => SchemaFrozen]_vars

\* C11: once check() has returned True, no step of the service (a
\* collection pass or the delivery of its snapshot) changes the chart
\* order, a title or the lines of any chart, and no key that was None in
\* the snapshot check() built the schema from is bound to a line afterwards.
C11_CapabilityDeterminedOnce ==
    [][Running => (SchemaFrozen /\ (SchemaKeys \subseteq initPresent)')]_vars

\* The keys bound to the lines of one chart.
LineKeys(chart) ==
    {definitions[chart].lines[n].id : n \in 1 .. Len(definitions[chart].lines)}

\* C12: in the schema check() built, every device has its PCIe RX line
\* exactly when it has its PCIe TX line, and has both exactly when its
\* PCIe TX value is not None in the snapshot.
C12_PcieLinesTogether ==
    pc = "checked" =>
        \A i \in Devices :
            /\ Key("device_util_pcie_rx", 0, i) \in LineKeys("pcie")
                  <=> Key("device_util_pcie_tx", 0, i) \in LineKeys("pcie")
            /\ Key("device_util_pcie_tx", 0, i) \in LineKeys("pcie")
                  <=> data[Key("device_util_pcie_tx", 0, i)] # None

\* A schema with the TX and RX lines of one device, in this order, and
\* neither line of another device, whose RX query raised.
C12_Witness ==
    /\ pc = "checked"
    /\ \E i, j \in Devices :
          /\ <<"pcie", 1, i>> \in inp.faults
          /\ KeysOf(definitions["pcie"].lines, i) = <<>>
          /\ KeysOf(definitions["pcie"].lines, j) =
                <<Key("device_util_pcie_tx", 0, j), Key("device_util_pcie_rx", 0, j)>>

\* C13: when check() has returned True, every chart name in the chart
\* order has a chart definition.
C13_OrderedChartsDefined ==
    pc = "checked" => \A n \in 1 .. Len(order) : order[n] \in DOMAIN definitions

====
